---- MODULE Spec2Model ----
(***************************************************************************)
(* State-machine model of the gRPC user service:                           *)
(*   internal/models/user.go            the User record and its helpers    *)
(*   internal/repository/user_repository.go  the in-memory store (RWMutex) *)
(*   internal/service/user_service.go   the request handlers               *)
(* Every handler runs as its own goroutine; a handler is a process whose   *)
(* pc names the next statement that touches shared state.  Go strings that *)
(* are searched (names, keywords) are sequences of one-character strings;  *)
(* strings that are only compared (emails, roles) are TLA+ strings.        *)
(***************************************************************************)
EXTENDS Integers, Sequences, FiniteSets, TLC

\* ------------------------------------------------------------------ bounds
\* Number of requests (unary requests and CreateUsers items) the server receives.
MaxCalls == 2
\* Longest name / keyword of the List inputs.
MaxNameLen == 3
MaxKeywordLen == 2
\* the items of a CreateUsers stream that runs on its own
MaxItems == 3
\* the messages a Chat session receives and the ticks of its heartbeat timer
MaxMsgs == 2
MaxBeats == 2

\* The concurrent handlers.
Procs == {"h1", "h2"}
\* The handler that calls List in SpecList.
ListCallers == {"h1"}

\* ------------------------------------------------------------------ values
Range(s) == {s[i] : i \in 1..Len(s)}

Str(n, alphabet) == UNION {[1..k -> alphabet] : k \in 0..n}

\* seed names (user_repository.go:39-41)
JohnDoe == <<"J","o","h","n"," ","D","o","e">>
JaneSmith == <<"J","a","n","e"," ","S","m","i","t","h">>
BobJohnson == <<"B","o","b"," ","J","o","h","n","s","o","n">>

NilUser == [ID |-> 0, Name |-> <<>>, Email |-> "", Role |-> "",
            CreatedAt |-> 0, UpdatedAt |-> 0]
NilResponse == [id |-> 0, name |-> <<>>, email |-> "", role |-> "",
                created_at |-> 0, updated_at |-> 0]
NilBulk == [CreatedCount |-> 0, UserIds |-> <<>>, Errors |-> <<>>]
NilRequest == [id |-> 0, name |-> <<>>, email |-> "", role |-> ""]
NilFilter == [keyword |-> <<>>, roles |-> <<>>, limit |-> 0]
NoProc == "none"
\* pb.ChatMessage
NilMessage == [From |-> "", To |-> "", Message |-> <<>>, Timestamp |-> 0, Type |-> "TEXT"]
\* No Chat session: no goroutine runs.  sendErr holds the goroutines whose
\* stream.Send returned an error.
NoChat == [wg |-> 0, rx |-> "off", hb |-> "off", msg |-> NilMessage,
           response |-> NilMessage, heartbeat |-> NilMessage,
           got |-> <<>>, out |-> <<>>, beats |-> 0, sendErr |-> {}]

\* The users a NewInMemoryUserRepository starts with; `now` is the clock
\* reading at construction.
SeedUsers(now) ==
    (1 :> [ID |-> 1, Name |-> JohnDoe, Email |-> "john@example.com",
           Role |-> "admin", CreatedAt |-> now, UpdatedAt |-> now]) @@
    (2 :> [ID |-> 2, Name |-> JaneSmith, Email |-> "jane@example.com",
           Role |-> "user", CreatedAt |-> now, UpdatedAt |-> now]) @@
    (3 :> [ID |-> 3, Name |-> BobJohnson, Email |-> "bob@example.com",
           Role |-> "user", CreatedAt |-> now, UpdatedAt |-> now])
SeedNextID == 4

\* ------------------------------------------------------------------ inputs
ReqIDs == {2, 4}
ReqNames == {<<>>, <<"A","l">>}
ReqEmails == {"", "john@example.com", "new@example.com", "alt@example.com",
              "third@example.com"}
UpdateEmails == {"", "john@example.com"}
ReqRoles == {"", "admin"}
Contexts == {"live", "deadline", "canceled"}

\* Create requests: a role is given with two of the emails only, a request
\* without a name has no email or a seed user's, and the third fresh email
\* is left to BatchRequests.
CreateRequests ==
    {r \in [id : {0}, name : ReqNames, email : ReqEmails, role : ReqRoles] :
        /\ r.role = "" \/ (r.name # <<>> /\ r.email \in {"john@example.com", "new@example.com"})
        /\ r.name = <<>> => r.email \in {"", "john@example.com"}
        /\ r.email # "third@example.com"}
\* The items of a CreateUsers stream that runs beside a CreateUser call:
\* three fresh emails, a seed user's email, and an item with no name.
BatchRequests ==
    {r \in [id : {0}, name : ReqNames, email : ReqEmails, role : {""}] :
        /\ r.email # ""
        /\ r.name = <<>> => r.email = "john@example.com"}
\* Update requests: one field set, or all three; of ID 4 the role alone.
FieldsSet(r) ==
    (IF r.name # <<>> THEN 1 ELSE 0) + (IF r.email # "" THEN 1 ELSE 0)
        + (IF r.role # "" THEN 1 ELSE 0)
UpdateRequests ==
    {r \in [id : ReqIDs, name : ReqNames, email : UpdateEmails, role : ReqRoles] :
        /\ FieldsSet(r) \in {1, 3}
        /\ r.id = 4 => (FieldsSet(r) = 1 /\ r.role # "")}
\* Inputs of List: the store holds user 1 under any name of up to MaxNameLen
\* characters and user 2 under one of two names, each present or not; the
\* two characters differ only in case.
Alphabet == {"a", "A"}
ListNames == Str(MaxNameLen, Alphabet) \ {<<>>}
ListNames2 == {<<"a">>, <<"A", "a">>}
StoredRoles == {"user", "admin"}
ListUser(id, n, r) ==
    [ID |-> id, Name |-> n, Email |-> SeedUsers(0)[id].Email, Role |-> r,
     CreatedAt |-> 0, UpdatedAt |-> 0]
ListStores ==
    LET U1 == {<<>>} \cup {(1 :> ListUser(1, n, r)) : n \in ListNames, r \in StoredRoles}
        U2 == {<<>>} \cup {(2 :> ListUser(2, n, r)) : n \in ListNames2, r \in StoredRoles}
    IN {a @@ b : a \in U1, b \in U2}
ListFilters ==
    [keyword : Str(MaxKeywordLen, Alphabet),
     roles : {<<>>, <<"admin">>, <<"guest", "user">>},
     limit : {-1, 0, 1, 2}]

IDRequests == {[id |-> i, name |-> <<>>, email |-> "", role |-> ""] : i \in ReqIDs}

\* The filters StreamUsers is called with: everyone; the users whose name
\* holds "Jo"; at most two records; a role no user has.
StreamFilters ==
    {[keyword |-> <<>>, roles |-> <<>>, limit |-> 0],
     [keyword |-> <<"J","o">>, roles |-> <<"user">>, limit |-> 0],
     [keyword |-> <<>>, roles |-> <<>>, limit |-> 2],
     [keyword |-> <<>>, roles |-> <<"guest">>, limit |-> 0]}

\* The messages a Chat client sends: to the server, as the repository's
\* client does; to another party; with an empty body.
ChatMessages ==
    {[From |-> "Client", To |-> "Server", Message |-> <<"H","i">>, Timestamp |-> 0,
      Type |-> "TEXT"],
     [From |-> "Ann", To |-> "Bob", Message |-> <<"H","i">>, Timestamp |-> 0,
      Type |-> "TEXT"],
     [From |-> "Client", To |-> "Server", Message |-> <<>>, Timestamp |-> 0,
      Type |-> "TEXT"]}

\* What a unary handler is called with: each request under a live context,
\* and the request r0 under each context that is past its deadline or canceled.
Calls(requests, r0) ==
    {[r |-> r, c |-> "live"] : r \in requests}
        \cup {[r |-> r0, c |-> c] : c \in Contexts \ {"live"}}
GetUserCalls == Calls(IDRequests, [id |-> 2, name |-> <<>>, email |-> "", role |-> ""])
DeleteUserCalls == Calls(IDRequests, [id |-> 2, name |-> <<>>, email |-> "", role |-> ""])
CreateUserCalls ==
    Calls(CreateRequests,
          [id |-> 0, name |-> <<"A","l">>, email |-> "john@example.com", role |-> "admin"])
UpdateUserCalls ==
    Calls(UpdateRequests,
          [id |-> 2, name |-> <<"A","l">>, email |-> "john@example.com", role |-> "admin"])

\* ------------------------------------------------------- models/user.go
ToProto(u) ==
    [id |-> u.ID, name |-> u.Name, email |-> u.Email, role |-> u.Role,
     created_at |-> u.CreatedAt, updated_at |-> u.UpdatedAt]

\* faulty variant: the role of the request is taken as it is
FromCreateRequest_NoDefault(r, id, now) ==
    [ID |-> id, Name |-> r.name, Email |-> r.email, Role |-> r.role,
     CreatedAt |-> now, UpdatedAt |-> now]

FromCreateRequest(r, id, now) ==
    [ID |-> id, Name |-> r.name, Email |-> r.email,
     Role |-> IF r.role = "" THEN "user" ELSE r.role,
     CreatedAt |-> now, UpdatedAt |-> now]

UserUpdate(u, r, now) ==
    [ID |-> u.ID,
     Name |-> IF r.name # <<>> THEN r.name ELSE u.Name,
     Email |-> IF r.email # "" THEN r.email ELSE u.Email,
     Role |-> IF r.role # "" THEN r.role ELSE u.Role,
     CreatedAt |-> u.CreatedAt,
     UpdatedAt |-> now]

\* -------------------------------------------- repository/user_repository.go
\* The bodies of the store's methods, as functions of the store's fields.

GetByIDBody(us, id) ==
    IF id \in DOMAIN us
    THEN [user |-> us[id], err |-> "nil"]
    ELSE [user |-> NilUser, err |-> "ErrUserNotFound"]

\* faulty variant: Create does not validate the record
CreateValid_Always(u) == TRUE
CreateValid(u) == ~(u.Name = <<>> \/ u.Email = "")

\* faulty variant: the duplicate scan finds nothing
EmailTaken_Never(us, email) == FALSE

EmailTaken(us, email) == \E id \in DOMAIN us : us[id].Email = email

\* faulty variant: the ID is taken from the size of the collection
AssignID_FromLen(us, next) ==
    [id |-> Cardinality(DOMAIN us) + 1, next |-> next + 1]

AssignID(us, next) == [id |-> next, next |-> next + 1]

StoreUser(us, u) == [id \in DOMAIN us \cup {u.ID} |-> IF id = u.ID THEN u ELSE us[id]]

\* faulty variant: Update stores the record without looking for its ID
UpdateBody_Upsert(us, u) == [users |-> StoreUser(us, u), err |-> "nil"]

UpdateBody(us, u) ==
    IF u.ID \notin DOMAIN us
    THEN [users |-> us, err |-> "ErrUserNotFound"]
    ELSE [users |-> StoreUser(us, u), err |-> "nil"]

\* faulty variant: Delete reports success and keeps the record
DeleteBody_Keep(us, id) ==
    IF id \notin DOMAIN us
    THEN [users |-> us, err |-> "ErrUserNotFound"]
    ELSE [users |-> us, err |-> "nil"]

DeleteBody(us, id) ==
    IF id \notin DOMAIN us
    THEN [users |-> us, err |-> "ErrUserNotFound"]
    ELSE [users |-> [k \in DOMAIN us \ {id} |-> us[k]], err |-> "nil"]

findSubstring(s, substr) ==
    \E i \in 0..(Len(s) - Len(substr)) : SubSeq(s, i + 1, i + Len(substr)) = substr

\* faulty variant: the search looks at the two ends of s only
contains_EndsOnly(s, substr) ==
    /\ Len(s) >= Len(substr)
    /\ \/ s = substr
       \/ /\ Len(s) > Len(substr)
          /\ \/ SubSeq(s, 1, Len(substr)) = substr
             \/ SubSeq(s, Len(s) - Len(substr) + 1, Len(s)) = substr

contains(s, substr) ==
    /\ Len(s) >= Len(substr)
    /\ \/ s = substr
       \/ /\ Len(s) > Len(substr)
          /\ \/ SubSeq(s, 1, Len(substr)) = substr
             \/ SubSeq(s, Len(s) - Len(substr) + 1, Len(s)) = substr
             \/ findSubstring(s, substr)

RoleMatch(role, roles) == \E i \in 1..Len(roles) : role = roles[i]

\* faulty variant: the limit test is off by one
LimitReached_OffByOne(f, count) == f.limit > 0 /\ count > f.limit

LimitReached(f, count) == f.limit > 0 /\ count >= f.limit

\* The loop of List over the users in the order `order` the map iteration
\* happens to produce, from position i on.
RECURSIVE ListLoop(_, _, _, _, _, _)
ListLoop(order, i, us, f, result, count) ==
    IF i > Len(order) THEN result
    ELSE LET u == us[order[i]] IN
         IF f.keyword # <<>> /\ ~contains(u.Name, f.keyword)
         THEN ListLoop(order, i + 1, us, f, result, count)
         ELSE IF Len(f.roles) > 0 /\ ~RoleMatch(u.Role, f.roles)
         THEN ListLoop(order, i + 1, us, f, result, count)
         ELSE IF LimitReached(f, count)
         THEN result
         ELSE ListLoop(order, i + 1, us, f, Append(result, u), count + 1)

\* Go leaves the iteration order of a map unspecified: any order of the keys.
IterationOrders(us) ==
    LET n == Cardinality(DOMAIN us) IN
    {o \in [1..n -> DOMAIN us] : \A i, j \in 1..n : i # j => o[i] # o[j]}

\* ------------------------------------------------- service/user_service.go
\* faulty variant: the context is never looked at
checkContext_Ignored(c) == "OK"

checkContext(c) ==
    IF c = "deadline" THEN "DeadlineExceeded"
    ELSE IF c = "canceled" THEN "Canceled"
    ELSE "OK"

Reply(code, u) == [code |-> code, user |-> u, bulk |-> NilBulk]
BulkReply(code, b) == [code |-> code, user |-> NilResponse, bulk |-> b]

\* ---- which handler's pointer the map holds
\* r.users[id] = user stores the pointer the caller passed in
StoredPointer(ow, us, id, p) == [i \in DOMAIN us |-> IF i = id THEN p ELSE ow[i]]
\* delete(r.users, id), or a map that is otherwise unchanged
KeptPointers(ow, us) == [i \in DOMAIN us |-> ow[i]]
\* p's local `user` is assigned another object, or p returns
DroppedPointer(ow, p) == [i \in DOMAIN ow |-> IF ow[i] = p THEN NoProc ELSE ow[i]]

\* --------------------------------------------------------------- state
VARIABLES
    users,      \* r.users: ID -> User
    nextID,     \* r.nextID
    owner,      \* per stored ID: the handler whose local `user` points at the
                \* very object r.users holds, NoProc when no handler does
    mutex,      \* r.mutex: the writer holding it and the readers holding it
    clock,      \* the last reading time.Now() returned
    pc,         \* per handler: the statement it is at
    op,         \* per handler: the RPC it serves
    req,        \* per handler: the request
    ctx,        \* per handler: ctx.Err() at entry
    user,       \* per handler: the local *models.User
    err,        \* per handler: the last error the store returned
    ret,        \* per handler: what the handler returned
    bulk,       \* per handler: createdCount, userIDs, errors of CreateUsers
    filt,       \* per handler: the filter passed to List
    lst,        \* per handler: the slice List returned
    calls,      \* requests received so far
    assigned,   \* history: the IDs Create assigned, in order
    deleted,    \* history: the IDs Delete removed
    createLog,  \* history: per email, the calls of repo.Create and their outcomes
    received,   \* per handler: the items stream.Recv() delivered to CreateUsers
    emitted,    \* per handler: the responses stream.Send() put on the wire
    chat,       \* per handler: the Chat session (its WaitGroup, its two
                \* goroutines, the messages received and the messages sent)
    entry       \* per handler: the state of the call's context when the
                \* handler was entered

store == <<users, nextID, owner>>
locals == <<pc, op, req, ctx, user, err, ret, bulk, filt, lst>>
history == <<assigned, deleted, createLog, received, emitted, chat, entry>>
vars == <<users, nextID, owner, mutex, clock, pc, op, req, ctx, user, err, ret, bulk,
          filt, lst, calls, assigned, deleted, createLog, received,
          emitted, chat, entry>>

\* No call of repo.Create yet: n counts the calls that pass its validation,
\* ok, dup and invalid the calls that returned nil, ErrEmailExists and
\* ErrInvalidInput.
NoCreates == [e \in ReqEmails |-> [n |-> 0, ok |-> 0, dup |-> 0, invalid |-> 0]]
Logged(log, email, field) == [log EXCEPT ![email][field] = @ + 1]

InitLocals ==
    /\ pc = [p \in Procs |-> "idle"]
    /\ op = [p \in Procs |-> "none"]
    /\ req = [p \in Procs |-> NilRequest]
    /\ ctx = [p \in Procs |-> "live"]
    /\ user = [p \in Procs |-> NilUser]
    /\ err = [p \in Procs |-> "nil"]
    /\ ret = [p \in Procs |-> Reply("none", NilResponse)]
    /\ bulk = [p \in Procs |-> NilBulk]
    /\ filt = [p \in Procs |-> NilFilter]
    /\ lst = [p \in Procs |-> <<>>]

Init ==
    /\ users = SeedUsers(0)
    /\ nextID = SeedNextID
    /\ owner = [id \in DOMAIN users |-> NoProc]
    /\ mutex = [writer |-> NoProc, readers |-> {}]
    /\ clock = 0
    /\ InitLocals
    /\ calls = 0
    /\ assigned = <<>>
    /\ deleted = {}
    /\ createLog = NoCreates
    /\ received = [p \in Procs |-> <<>>]
    /\ emitted = [p \in Procs |-> <<>>]
    /\ chat = [p \in Procs |-> NoChat]
    /\ entry = [p \in Procs |-> "live"]

\* ---- sync.RWMutex
\* faulty variant: Lock does not wait for the holders of the mutex
CanLock_NoExclusion == TRUE

CanLock == mutex.writer = NoProc /\ mutex.readers = {}

\* faulty variant: RLock does not wait for the writer
CanRLock_NoExclusion == TRUE

CanRLock == mutex.writer = NoProc
Lock(p) == [mutex EXCEPT !.writer = p]
Unlock(p) == [mutex EXCEPT !.writer = NoProc]
RLock(p) == [mutex EXCEPT !.readers = @ \cup {p}]
\* faulty variant: the deferred RUnlock is missing
RUnlock_Missing(p) == mutex
RUnlock(p) == [mutex EXCEPT !.readers = @ \ {p}]

\* A handler goroutine is free to serve a new call.
Free(p) == pc[p] = "idle" /\ calls < MaxCalls

\* The locals of a handler that starts serving `o` with request r, context c.
Enter(p, o, r, c) ==
    /\ op' = [op EXCEPT ![p] = o]
    /\ req' = [req EXCEPT ![p] = r]
    /\ ctx' = [ctx EXCEPT ![p] = c]
    /\ calls' = calls + 1
    /\ UNCHANGED <<bulk, filt, lst>>

\* The handler returns.
Return(p, reply) ==
    /\ pc' = [pc EXCEPT ![p] = "done"]
    /\ ret' = [ret EXCEPT ![p] = reply]

\* The handler goes on to the statement at label l.
Goto(p, l) ==
    /\ pc' = [pc EXCEPT ![p] = l]
    /\ ret' = [ret EXCEPT ![p] = Reply("none", NilResponse)]

\* How each handler maps a store error to a status code.
GetUserCode(e) == IF e = "ErrUserNotFound" THEN "NotFound" ELSE "Internal"
CreateUserCode(e) ==
    IF e = "ErrInvalidInput" THEN "InvalidArgument"
    ELSE IF e = "ErrEmailExists" THEN "AlreadyExists"
    ELSE "Internal"
UpdateUserGetCode(e) == IF e = "ErrUserNotFound" THEN "NotFound" ELSE "Internal"
UpdateUserPersistCode(e) == "Internal"
\* faulty variant: DeleteUser reports every store error as Internal
DeleteUserCode_Internal(e) == "Internal"
DeleteUserCode(e) == IF e = "ErrUserNotFound" THEN "NotFound" ELSE "Internal"

\* faulty variant: the message leaves the email out
BulkErrorMessage_NoEmail(email, e) == <<"Email ", "", ": ", e>>

\* fmt.Sprintf("Email %s: %v", req.Email, err)
BulkErrorMessage(email, e) == <<"Email ", email, ": ", e>>

\* ---- GetUser (user_service.go:34-51)
GetUserCall(p) ==
    \E k \in GetUserCalls :
        LET r == k.r
            c == k.c
        IN
            /\ Free(p)
            /\ Enter(p, "GetUser", r, c)
            /\ user' = [user EXCEPT ![p] = NilUser]
            /\ err' = [err EXCEPT ![p] = "nil"]
            /\ IF checkContext(c) # "OK"
               THEN Return(p, Reply(checkContext(c), NilResponse))
               ELSE Goto(p, "get_rlock")
            /\ UNCHANGED <<store, mutex, clock, history>>

\* ---- repo.GetByID (user_repository.go:50-62), called by GetUser and UpdateUser
GetByIDRLock(p) ==
    /\ pc[p] = "get_rlock"
    /\ CanRLock
    /\ mutex' = RLock(p)
    /\ pc' = [pc EXCEPT ![p] = "get_read"]
    /\ UNCHANGED <<store, clock, op, req, ctx, user, err, ret, bulk, filt, lst,
                   calls, history>>

GetByIDRead(p) ==
    /\ pc[p] = "get_read"
    /\ LET g == GetByIDBody(users, req[p].id) IN
        /\ user' = [user EXCEPT ![p] = g.user]
        /\ err' = [err EXCEPT ![p] = g.err]
        /\ mutex' = RUnlock(p)
        /\ IF op[p] = "GetUser"
           THEN IF g.err # "nil"
                THEN Return(p, Reply(GetUserCode(g.err), NilResponse))
                ELSE Return(p, Reply("OK", ToProto(g.user)))
           ELSE IF g.err # "nil"
                THEN Return(p, Reply(UpdateUserGetCode(g.err), NilResponse))
                ELSE Goto(p, "upd_apply")
    /\ UNCHANGED <<store, clock, op, req, ctx, bulk, filt, lst, calls, history>>

\* ---- UpdateUser (user_service.go:78-100)
UpdateUserCall(p) ==
    \E k \in UpdateUserCalls :
        LET r == k.r
            c == k.c
        IN
            /\ Free(p)
            /\ Enter(p, "UpdateUser", r, c)
            /\ user' = [user EXCEPT ![p] = NilUser]
            /\ err' = [err EXCEPT ![p] = "nil"]
            /\ IF checkContext(c) # "OK"
               THEN Return(p, Reply(checkContext(c), NilResponse))
               ELSE Goto(p, "get_rlock")
            /\ UNCHANGED <<store, mutex, clock, history>>

\* user.Update(req) on the handler's copy (user_service.go:93)
UpdateUserApply(p) ==
    /\ pc[p] = "upd_apply"
    /\ clock' = clock + 1
    /\ user' = [user EXCEPT ![p] = UserUpdate(user[p], req[p], clock + 1)]
    /\ pc' = [pc EXCEPT ![p] = "upd_lock"]
    /\ UNCHANGED <<store, mutex, op, req, ctx, err, ret, bulk, filt, lst, calls,
                   history>>

\* ---- repo.Update (user_repository.go:86-96)
UpdateLock(p) ==
    /\ pc[p] = "upd_lock"
    /\ CanLock
    /\ mutex' = Lock(p)
    /\ pc' = [pc EXCEPT ![p] = "upd_body"]
    /\ UNCHANGED <<store, clock, op, req, ctx, user, err, ret, bulk, filt, lst,
                   calls, history>>

UpdateStore(p) ==
    /\ pc[p] = "upd_body"
    /\ LET u == UpdateBody(users, user[p]) IN
        /\ users' = u.users
        /\ owner' = IF u.err = "nil"
                    THEN StoredPointer(owner, u.users, user[p].ID, p)
                    ELSE owner
        /\ err' = [err EXCEPT ![p] = u.err]
        /\ mutex' = Unlock(p)
        /\ IF u.err # "nil"
           THEN Return(p, Reply(UpdateUserPersistCode(u.err), NilResponse))
           ELSE Return(p, Reply("OK", ToProto(user[p])))
    /\ UNCHANGED <<nextID, clock, op, req, ctx, user, bulk, filt, lst, calls,
                   history>>

\* ---- DeleteUser (user_service.go:103-118)
DeleteUserCall(p) ==
    \E k \in DeleteUserCalls :
        LET r == k.r
            c == k.c
        IN
            /\ Free(p)
            /\ Enter(p, "DeleteUser", r, c)
            /\ user' = [user EXCEPT ![p] = NilUser]
            /\ err' = [err EXCEPT ![p] = "nil"]
            /\ IF checkContext(c) # "OK"
               THEN Return(p, Reply(checkContext(c), NilResponse))
               ELSE Goto(p, "del_lock")
            /\ UNCHANGED <<store, mutex, clock, history>>

\* ---- repo.Delete (user_repository.go:98-108)
DeleteLock(p) ==
    /\ pc[p] = "del_lock"
    /\ CanLock
    /\ mutex' = Lock(p)
    /\ pc' = [pc EXCEPT ![p] = "del_body"]
    /\ UNCHANGED <<store, clock, op, req, ctx, user, err, ret, bulk, filt, lst,
                   calls, history>>

DeleteStore(p) ==
    /\ pc[p] = "del_body"
    /\ LET d == DeleteBody(users, req[p].id) IN
        /\ users' = d.users
        /\ owner' = KeptPointers(owner, d.users)
        /\ err' = [err EXCEPT ![p] = d.err]
        /\ mutex' = Unlock(p)
        /\ deleted' = IF d.err = "nil" THEN deleted \cup {req[p].id} ELSE deleted
        /\ IF d.err # "nil"
           THEN Return(p, Reply(DeleteUserCode(d.err), NilResponse))
           ELSE Return(p, Reply("OK", NilResponse))
    /\ UNCHANGED <<nextID, clock, op, req, ctx, user, bulk, filt, lst, calls,
                   assigned, createLog, received, emitted,
                   chat, entry>>

\* ---- what the caller of repo.Create does with its result:
\* CreateUser returns (user_service.go:63-74), CreateUsers records the
\* outcome and receives the next item (user_service.go:164-170).
\* faulty variant: CreateUsers gives up at the first failed item
AfterCreate_Abort(p, e, u) ==
    IF op[p] = "CreateUser"
    THEN /\ IF e # "nil"
            THEN Return(p, Reply(CreateUserCode(e), NilResponse))
            ELSE Return(p, Reply("OK", ToProto(u)))
         /\ UNCHANGED bulk
    ELSE IF e # "nil"
    THEN /\ Return(p, BulkReply(e, NilBulk))
         /\ UNCHANGED bulk
    ELSE /\ Goto(p, "bulk_recv")
         /\ bulk' = [bulk EXCEPT ![p] = [@ EXCEPT !.CreatedCount = @ + 1,
                                                  !.UserIds = Append(@, u.ID)]]

\* faulty variant: CreateUsers puts a new ID in front of the ones it has
AfterCreate_Prepend(p, e, u) ==
    IF op[p] = "CreateUser"
    THEN /\ IF e # "nil"
            THEN Return(p, Reply(CreateUserCode(e), NilResponse))
            ELSE Return(p, Reply("OK", ToProto(u)))
         /\ UNCHANGED bulk
    ELSE /\ Goto(p, "bulk_recv")
         /\ bulk' = [bulk EXCEPT ![p] =
                IF e # "nil"
                THEN [@ EXCEPT !.Errors = Append(@, BulkErrorMessage(req[p].email, e))]
                ELSE [@ EXCEPT !.CreatedCount = @ + 1,
                               !.UserIds = <<u.ID>> \o @]]

AfterCreate(p, e, u) ==
    IF op[p] = "CreateUser"
    THEN /\ IF e # "nil"
            THEN Return(p, Reply(CreateUserCode(e), NilResponse))
            ELSE Return(p, Reply("OK", ToProto(u)))
         /\ UNCHANGED bulk
    ELSE /\ Goto(p, "bulk_recv")
         /\ bulk' = [bulk EXCEPT ![p] =
                IF e # "nil"
                THEN [@ EXCEPT !.Errors = Append(@, BulkErrorMessage(req[p].email, e))]
                ELSE [@ EXCEPT !.CreatedCount = @ + 1,
                               !.UserIds = Append(@, u.ID)]]

\* ---- CreateUser (user_service.go:54-75), up to the validation in
\* repo.Create (user_repository.go:65-67), which touches no shared state.
CreateUserCall(p) ==
    \E k \in CreateUserCalls :
        LET r == k.r
            c == k.c
        IN
            /\ Free(p)
            /\ op' = [op EXCEPT ![p] = "CreateUser"]
            /\ req' = [req EXCEPT ![p] = r]
            /\ ctx' = [ctx EXCEPT ![p] = c]
            /\ calls' = calls + 1
            /\ IF checkContext(c) # "OK"
               THEN /\ Return(p, Reply(checkContext(c), NilResponse))
                    /\ user' = [user EXCEPT ![p] = NilUser]
                    /\ err' = [err EXCEPT ![p] = "nil"]
                    /\ UNCHANGED <<clock, createLog>>
               ELSE LET u == FromCreateRequest(r, 0, clock + 1) IN
                    /\ clock' = clock + 1
                    /\ user' = [user EXCEPT ![p] = u]
                    /\ IF CreateValid(u)
                       THEN /\ Goto(p, "create_lock")
                            /\ err' = [err EXCEPT ![p] = "nil"]
                            /\ createLog' = Logged(createLog, r.email, "n")
                       ELSE /\ Return(p, Reply(CreateUserCode("ErrInvalidInput"), NilResponse))
                            /\ err' = [err EXCEPT ![p] = "ErrInvalidInput"]
                            /\ createLog' = Logged(createLog, r.email, "invalid")
            /\ UNCHANGED <<store, mutex, bulk, filt, lst, assigned, deleted, received, emitted,
                   chat, entry>>

\* ---- repo.Create (user_repository.go:69-83)
CreateLock(p) ==
    /\ pc[p] = "create_lock"
    /\ CanLock
    /\ mutex' = Lock(p)
    /\ pc' = [pc EXCEPT ![p] = "create_scan"]
    /\ UNCHANGED <<store, clock, op, req, ctx, user, err, ret, bulk, filt, lst,
                   calls, history>>

\* the duplicate scan and, when it finds nothing, user.ID = r.nextID; r.nextID++
CreateScan(p) ==
    /\ pc[p] = "create_scan"
    /\ IF EmailTaken(users, user[p].Email)
       THEN /\ err' = [err EXCEPT ![p] = "ErrEmailExists"]
            /\ mutex' = Unlock(p)
            /\ AfterCreate(p, "ErrEmailExists", user[p])
            /\ createLog' = Logged(createLog, user[p].Email, "dup")
            /\ UNCHANGED <<nextID, user, assigned>>
       ELSE LET a == AssignID(users, nextID) IN
            /\ user' = [user EXCEPT ![p].ID = a.id]
            /\ nextID' = a.next
            /\ assigned' = Append(assigned, a.id)
            /\ pc' = [pc EXCEPT ![p] = "create_store"]
            /\ UNCHANGED <<mutex, err, ret, bulk, createLog>>
    /\ UNCHANGED <<users, owner, clock, op, req, ctx, filt, lst, calls, deleted,
                   received, emitted,
                   chat, entry>>

\* r.users[user.ID] = user, and the deferred Unlock
CreateStore(p) ==
    /\ pc[p] = "create_store"
    /\ users' = StoreUser(users, user[p])
    /\ owner' = StoredPointer(owner, StoreUser(users, user[p]), user[p].ID, p)
    /\ mutex' = Unlock(p)
    /\ err' = [err EXCEPT ![p] = "nil"]
    /\ AfterCreate(p, "nil", user[p])
    /\ createLog' = Logged(createLog, user[p].Email, "ok")
    /\ UNCHANGED <<nextID, clock, op, req, ctx, user, filt, lst, calls, assigned,
                   deleted, received, emitted,
                   chat, entry>>

\* ---- CreateUsers (user_service.go:147-178)
CreateUsersCall(p) ==
    /\ pc[p] = "idle"
    /\ op' = [op EXCEPT ![p] = "CreateUsers"]
    /\ UNCHANGED <<req, ctx, bulk, filt, lst, calls>>
    /\ user' = [user EXCEPT ![p] = NilUser]
    /\ err' = [err EXCEPT ![p] = "nil"]
    /\ Goto(p, "bulk_recv")
    /\ UNCHANGED <<store, mutex, clock, history>>

\* stream.Recv() delivers an item: FromCreateRequest and the validation of
\* repo.Create follow without touching shared state.
CreateUsersRecvFrom(p, items) ==
    \E r \in items :
        /\ pc[p] = "bulk_recv"
        /\ calls < MaxCalls
        /\ calls' = calls + 1
        /\ req' = [req EXCEPT ![p] = r]
        /\ clock' = clock + 1
        /\ LET u == FromCreateRequest(r, 0, clock + 1) IN
            /\ user' = [user EXCEPT ![p] = u]
            /\ IF CreateValid(u)
               THEN /\ pc' = [pc EXCEPT ![p] = "create_lock"]
                    /\ err' = [err EXCEPT ![p] = "nil"]
                    /\ createLog' = Logged(createLog, r.email, "n")
                    /\ UNCHANGED bulk
               ELSE /\ pc' = [pc EXCEPT ![p] = "bulk_recv"]
                    /\ err' = [err EXCEPT ![p] = "ErrInvalidInput"]
                    /\ createLog' = Logged(createLog, r.email, "invalid")
                    /\ bulk' = [bulk EXCEPT ![p].Errors =
                            Append(@, BulkErrorMessage(r.email, "ErrInvalidInput"))]
        /\ owner' = DroppedPointer(owner, p)
        /\ received' = [received EXCEPT ![p] = Append(@, r)]
        /\ UNCHANGED <<emitted, chat, entry>>
        /\ UNCHANGED <<users, nextID, mutex, op, ctx, ret, filt, lst, assigned,
                       deleted>>

CreateUsersRecv(p) == CreateUsersRecvFrom(p, CreateRequests)
CreateUsersRecvBatch(p) == CreateUsersRecvFrom(p, BatchRequests)

\* stream.Recv() returns io.EOF: SendAndClose, whose error is returned.
CreateUsersEOF(p) ==
    \E sent \in BOOLEAN :
        /\ pc[p] = "bulk_recv"
        /\ IF sent
           THEN Return(p, BulkReply("OK", bulk[p]))
           ELSE Return(p, BulkReply("SendError", NilBulk))
        /\ UNCHANGED <<store, mutex, clock, op, req, ctx, user, err, bulk, filt,
                       lst, calls, history>>

\* faulty variant: the users the stream created are taken out again
CreateUsersRecvError_Rollback(p) ==
    /\ pc[p] = "bulk_recv"
    /\ Return(p, BulkReply("RecvError", NilBulk))
    /\ users' = [id \in DOMAIN users \ Range(bulk[p].UserIds) |-> users[id]]
    /\ owner' = [id \in DOMAIN users \ Range(bulk[p].UserIds) |-> owner[id]]
    /\ UNCHANGED <<nextID, mutex, clock, op, req, ctx, user, err, bulk, filt,
                   lst, calls, history>>

\* stream.Recv() returns another error: the handler returns it.
CreateUsersRecvError(p) ==
    /\ pc[p] = "bulk_recv"
    /\ Return(p, BulkReply("RecvError", NilBulk))
    /\ UNCHANGED <<store, mutex, clock, op, req, ctx, user, err, bulk, filt,
                   lst, calls, history>>

\* The reply is on the wire and the handler's goroutine ends.
Finish(p) ==
    /\ pc[p] = "done"
    /\ pc' = [pc EXCEPT ![p] = "idle"]
    /\ op' = [op EXCEPT ![p] = "none"]
    /\ req' = [req EXCEPT ![p] = NilRequest]
    /\ ctx' = [ctx EXCEPT ![p] = "live"]
    /\ user' = [user EXCEPT ![p] = NilUser]
    /\ err' = [err EXCEPT ![p] = "nil"]
    /\ ret' = [ret EXCEPT ![p] = Reply("none", NilResponse)]
    /\ bulk' = [bulk EXCEPT ![p] = NilBulk]
    /\ filt' = [filt EXCEPT ![p] = NilFilter]
    /\ lst' = [lst EXCEPT ![p] = <<>>]
    /\ owner' = DroppedPointer(owner, p)
    /\ received' = [received EXCEPT ![p] = <<>>]
    /\ emitted' = [emitted EXCEPT ![p] = <<>>]
    /\ chat' = [chat EXCEPT ![p] = NoChat]
    /\ entry' = [entry EXCEPT ![p] = "live"]
    /\ UNCHANGED <<users, nextID, mutex, clock, calls, assigned, deleted, createLog>>

\* ---- repo.List (user_repository.go:110-149)
ListCall(p) ==
    \E f \in ListFilters :
        /\ pc[p] = "idle"
        /\ op' = [op EXCEPT ![p] = "List"]
        /\ filt' = [filt EXCEPT ![p] = f]
        /\ pc' = [pc EXCEPT ![p] = "list_rlock"]
        /\ UNCHANGED <<store, mutex, clock, req, ctx, user, err, ret, bulk, lst,
                       calls, history>>

ListRLock(p) ==
    /\ pc[p] = "list_rlock"
    /\ CanRLock
    /\ mutex' = RLock(p)
    /\ pc' = [pc EXCEPT ![p] = "list_read"]
    /\ UNCHANGED <<store, clock, op, req, ctx, user, err, ret, bulk, filt, lst,
                   calls, history>>

ListRead(p) ==
    /\ pc[p] = "list_read"
    /\ \E order \in IterationOrders(users) :
        /\ lst' = [lst EXCEPT ![p] = ListLoop(order, 1, users, filt[p], <<>>, 0)]
        /\ err' = [err EXCEPT ![p] = "nil"]
        /\ mutex' = RUnlock(p)
        /\ pc' = [pc EXCEPT ![p] = IF op[p] = "StreamUsers" THEN "stream_loop" ELSE "done"]
        /\ UNCHANGED <<store, clock, op, req, ctx, user, ret, bulk, filt, calls,
                       history>>

\* ---- StreamUsers (user_service.go:121-144)
\* stream.Context().Err() once the context is done
ContextErr(c) == IF c = "canceled" THEN "context.Canceled" ELSE "context.DeadlineExceeded"

\* the call, whose context may be done already: repo.List(filter) comes
\* first, the context is not looked at
StreamUsersCall(p) ==
    \E f \in StreamFilters, c \in Contexts :
        /\ Free(p)
        /\ calls' = calls + 1
        /\ op' = [op EXCEPT ![p] = "StreamUsers"]
        /\ filt' = [filt EXCEPT ![p] = f]
        /\ ctx' = [ctx EXCEPT ![p] = c]
        /\ entry' = [entry EXCEPT ![p] = c]
        /\ Goto(p, "list_rlock")
        /\ UNCHANGED <<store, mutex, clock, req, user, err, bulk, lst, assigned,
                       deleted, createLog, received, emitted, chat>>

\* the client cancels the stream, or its deadline passes, at any moment
StreamCancel(p) ==
    \E c \in Contexts \ {"live"} :
        /\ op[p] = "StreamUsers"
        /\ pc[p] \notin {"idle", "done"}
        /\ ctx[p] = "live"
        /\ ctx' = [ctx EXCEPT ![p] = c]
        /\ UNCHANGED <<store, mutex, clock, pc, op, req, user, err, ret, bulk, filt,
                       lst, calls, history>>

\* faulty variant: the loop goes on whatever the context says
StreamLoop_NoCheck(p) ==
    /\ pc[p] = "stream_loop"
    /\ IF Len(emitted[p]) >= Len(lst[p])
       THEN Return(p, Reply("OK", NilResponse))
       ELSE Goto(p, "stream_send")
    /\ UNCHANGED <<store, mutex, clock, op, req, ctx, user, err, bulk, filt, lst,
                   calls, history>>

\* faulty variant: at the end of the slice the loop starts over
StreamLoop_Restart(p) ==
    /\ pc[p] = "stream_loop"
    /\ IF Len(emitted[p]) >= Len(lst[p])
       THEN /\ emitted' = [emitted EXCEPT ![p] = <<>>]
            /\ Goto(p, "stream_loop")
       ELSE /\ UNCHANGED emitted
            /\ IF ctx[p] # "live"
               THEN Return(p, Reply(ContextErr(ctx[p]), NilResponse))
               ELSE Goto(p, "stream_send")
    /\ UNCHANGED <<store, mutex, clock, op, req, ctx, user, err, bulk, filt, lst,
                   calls, assigned, deleted, createLog, received, chat, entry>>

\* the head of the loop over the slice List returned, and the context
\* check; the loop is at the record after the ones already sent
StreamLoop(p) ==
    /\ pc[p] = "stream_loop"
    /\ IF Len(emitted[p]) >= Len(lst[p])
       THEN Return(p, Reply("OK", NilResponse))
       ELSE IF ctx[p] # "live"
       THEN Return(p, Reply(ContextErr(ctx[p]), NilResponse))
       ELSE Goto(p, "stream_send")
    /\ UNCHANGED <<store, mutex, clock, op, req, ctx, user, err, bulk, filt, lst,
                   calls, history>>

\* faulty variant: each record is looked up in the store again when it is sent
StreamSend_Requery(p) ==
    \E sent \in BOOLEAN :
        /\ pc[p] = "stream_send"
        /\ IF sent
           THEN /\ emitted' = [emitted EXCEPT ![p] =
                        LET id == lst[p][Len(emitted[p]) + 1].ID IN
                        Append(@, IF id \in DOMAIN users THEN ToProto(users[id])
                                                          ELSE NilResponse)]
                /\ Goto(p, "stream_loop")
           ELSE /\ Return(p, Reply("SendError", NilResponse))
                /\ UNCHANGED emitted
        /\ UNCHANGED <<store, mutex, clock, op, req, ctx, user, err, bulk, filt,
                       lst, calls, assigned, deleted, createLog, received, chat, entry>>

\* faulty variant: after a failed Send the loop tries the record again
StreamSend_Retry(p) ==
    \E sent \in BOOLEAN :
        /\ pc[p] = "stream_send"
        /\ IF sent
           THEN /\ emitted' = [emitted EXCEPT ![p] =
                        Append(@, ToProto(lst[p][Len(emitted[p]) + 1]))]
                /\ Goto(p, "stream_loop")
           ELSE /\ Goto(p, "stream_loop")
                /\ UNCHANGED emitted
        /\ UNCHANGED <<store, mutex, clock, op, req, ctx, user, err, bulk, filt,
                       lst, calls, assigned, deleted, createLog, received, chat, entry>>

\* stream.Send(user.ToProto()), whose error ends the call
StreamSend(p) ==
    \E sent \in BOOLEAN :
        /\ pc[p] = "stream_send"
        /\ IF sent
           THEN /\ emitted' = [emitted EXCEPT ![p] =
                        Append(@, ToProto(lst[p][Len(emitted[p]) + 1]))]
                /\ Goto(p, "stream_loop")
           ELSE /\ Return(p, Reply("SendError", NilResponse))
                /\ UNCHANGED emitted
        /\ UNCHANGED <<store, mutex, clock, op, req, ctx, user, err, bulk, filt,
                       lst, calls, assigned, deleted, createLog, received, chat, entry>>

\* ---- Chat (user_service.go:181-239)
EchoMarker == <<"E","c","h","o",":"," ">>

\* faulty variant: the response keeps the recipient of the message
EchoResponse_SameRecipient(m, now) ==
    [From |-> "Server", To |-> m.To, Message |-> EchoMarker \o m.Message,
     Timestamp |-> now, Type |-> "TEXT"]

\* the echo response of the receiving goroutine (user_service.go:199-205)
EchoResponse(m, now) ==
    [From |-> "Server", To |-> m.From, Message |-> EchoMarker \o m.Message,
     Timestamp |-> now, Type |-> "TEXT"]

\* the heartbeat message (user_service.go:222-227)
HeartbeatMessage(now) ==
    [From |-> "Server", To |-> "", Message |-> <<"H","e","a","r","t","b","e","a","t">>,
     Timestamp |-> now, Type |-> "TEXT"]

\* wg.Add(2), the two `go` statements; the handler is then in wg.Wait()
ChatCall(p) ==
    /\ Free(p)
    /\ calls' = calls + 1
    /\ op' = [op EXCEPT ![p] = "Chat"]
    /\ ctx' = [ctx EXCEPT ![p] = "live"]
    /\ Goto(p, "chat_wait")
    /\ chat' = [chat EXCEPT ![p] = [NoChat EXCEPT !.wg = 2, !.rx = "recv", !.hb = "select"]]
    /\ UNCHANGED <<store, mutex, clock, req, user, err, bulk, filt, lst, assigned,
                   deleted, createLog, received, emitted, entry>>

\* what every step of a Chat goroutine leaves alone
ChatFrame ==
    UNCHANGED <<store, mutex, pc, op, req, ctx, user, err, ret, bulk, filt, lst,
                calls, assigned, deleted, createLog, received, emitted, entry>>

\* the stream's context is done: the client canceled or went away
ChatCancel(p) ==
    /\ op[p] = "Chat" /\ pc[p] = "chat_wait"
    /\ ctx[p] = "live"
    /\ ctx' = [ctx EXCEPT ![p] = "canceled"]
    /\ UNCHANGED <<store, mutex, clock, pc, op, req, user, err, ret, bulk, filt,
                   lst, calls, history>>

\* faulty variant: the goroutine returns without wg.Done()
Exited_NoDone(c, g) == [c EXCEPT ![g] = "exited"]

\* defer wg.Done() of the goroutine g
Exited(c, g) == [c EXCEPT ![g] = "exited", !.wg = @ - 1]

\* stream.Recv() returns a message: the response is built and stream.Send
\* is entered
RxRecvMessage(p) ==
    /\ chat[p].rx = "recv"
    /\ ctx[p] = "live"
    /\ Len(chat[p].got) < MaxMsgs
    /\ \E m \in ChatMessages :
        chat' = [chat EXCEPT ![p] = [@ EXCEPT !.msg = m,
                                              !.got = Append(@, m),
                                              !.response = EchoResponse(m, clock + 1),
                                              !.rx = "sending"]]
    /\ clock' = clock + 1
    /\ ChatFrame

\* stream.Recv() returns io.EOF or another error: the goroutine returns
RxRecvFail(p) ==
    /\ chat[p].rx = "recv"
    /\ chat' = [chat EXCEPT ![p] = Exited(@, "rx")]
    /\ UNCHANGED clock
    /\ ChatFrame

\* faulty variant: the loop goes on to the next Recv after a failed Send
RxSendEnd_KeepsGoing(p) ==
    /\ chat[p].rx = "sending"
    /\ \E sent \in BOOLEAN :
        chat' = [chat EXCEPT ![p] =
                    IF sent THEN [@ EXCEPT !.out = Append(@, chat[p].response), !.rx = "recv"]
                            ELSE [@ EXCEPT !.rx = "recv", !.sendErr = @ \cup {"rx"}]]
    /\ UNCHANGED clock
    /\ ChatFrame

\* stream.Send(response) returns: on to the next Recv, or out on an error
RxSendEnd(p) ==
    /\ chat[p].rx = "sending"
    /\ \E sent \in BOOLEAN :
        chat' = [chat EXCEPT ![p] =
                    IF sent THEN [@ EXCEPT !.out = Append(@, chat[p].response), !.rx = "recv"]
                            ELSE [Exited(@, "rx") EXCEPT !.sendErr = @ \cup {"rx"}]]
    /\ UNCHANGED clock
    /\ ChatFrame

\* select takes <-ticker.C: the heartbeat is built and stream.Send is entered
HbTick(p) ==
    /\ chat[p].hb = "select"
    /\ chat[p].beats < MaxBeats
    /\ chat' = [chat EXCEPT ![p] = [@ EXCEPT !.heartbeat = HeartbeatMessage(clock + 1),
                                             !.beats = @ + 1,
                                             !.hb = "sending"]]
    /\ clock' = clock + 1
    /\ ChatFrame

\* stream.Send(heartbeat) returns: back to select, or out on an error
HbSendEnd(p) ==
    /\ chat[p].hb = "sending"
    /\ \E sent \in BOOLEAN :
        chat' = [chat EXCEPT ![p] =
                    IF sent THEN [@ EXCEPT !.out = Append(@, chat[p].heartbeat), !.hb = "select"]
                            ELSE [Exited(@, "hb") EXCEPT !.sendErr = @ \cup {"hb"}]]
    /\ UNCHANGED clock
    /\ ChatFrame

\* faulty variant: the heartbeat goroutine also returns once the receiving
\* goroutine has
HbDone_WithReceiver(p) ==
    /\ chat[p].hb = "select"
    /\ ctx[p] # "live" \/ chat[p].rx = "exited"
    /\ chat' = [chat EXCEPT ![p] = Exited(@, "hb")]
    /\ UNCHANGED clock
    /\ ChatFrame

\* select takes <-stream.Context().Done(): the goroutine returns
HbDone(p) ==
    /\ chat[p].hb = "select"
    /\ ctx[p] # "live"
    /\ chat' = [chat EXCEPT ![p] = Exited(@, "hb")]
    /\ UNCHANGED clock
    /\ ChatFrame

\* faulty variant: the handler returns when the first goroutine is done
ChatReturn_FirstExit(p) ==
    /\ op[p] = "Chat" /\ pc[p] = "chat_wait"
    /\ chat[p].wg <= 1
    /\ Return(p, Reply("OK", NilResponse))
    /\ UNCHANGED <<store, mutex, clock, op, req, ctx, user, err, bulk, filt, lst,
                   calls, history>>

\* wg.Wait() returns once the counter is zero; return nil
ChatReturn(p) ==
    /\ op[p] = "Chat" /\ pc[p] = "chat_wait"
    /\ chat[p].wg = 0
    /\ Return(p, Reply("OK", NilResponse))
    /\ UNCHANGED <<store, mutex, clock, op, req, ctx, user, err, bulk, filt, lst,
                   calls, history>>

Next ==
    \E p \in Procs :
        \/ Finish(p)
        \/ GetUserCall(p)
        \/ CreateUserCall(p)
        \/ UpdateUserCall(p)
        \/ DeleteUserCall(p)
        \/ CreateUsersCall(p)
        \/ CreateUsersRecv(p)
        \/ CreateUsersEOF(p)
        \/ CreateUsersRecvError(p)
        \/ GetByIDRLock(p)
        \/ GetByIDRead(p)
        \/ UpdateUserApply(p)
        \/ UpdateLock(p)
        \/ UpdateStore(p)
        \/ DeleteLock(p)
        \/ DeleteStore(p)
        \/ CreateLock(p)
        \/ CreateScan(p)
        \/ CreateStore(p)

Spec == Init /\ [][Next]_vars

\* ---- creations only: CreateUser calls and CreateUsers streams
NextCreate ==
    \E p \in Procs :
        \/ Finish(p)
        \/ CreateUserCall(p)
        \/ CreateUsersCall(p)
        \/ CreateUsersRecv(p)
        \/ CreateUsersEOF(p)
        \/ CreateUsersRecvError(p)
        \/ CreateLock(p)
        \/ CreateScan(p)
        \/ CreateStore(p)

SpecCreate == Init /\ [][NextCreate]_vars

\* ---- one CreateUsers stream on its own, of up to MaxItems items
BulkCallers == {"h1"}

InitBulk ==
    /\ users = SeedUsers(0)
    /\ nextID = SeedNextID
    /\ owner = [id \in DOMAIN users |-> NoProc]
    /\ mutex = [writer |-> NoProc, readers |-> {}]
    /\ clock = 0
    /\ InitLocals
    /\ calls = MaxCalls - MaxItems
    /\ assigned = <<>>
    /\ deleted = {}
    /\ createLog = NoCreates
    /\ received = [p \in Procs |-> <<>>]
    /\ emitted = [p \in Procs |-> <<>>]
    /\ chat = [p \in Procs |-> NoChat]
    /\ entry = [p \in Procs |-> "live"]

NextBulk ==
    \E p \in BulkCallers :
        \/ CreateUsersCall(p)
        \/ CreateUsersRecv(p)
        \/ CreateUsersEOF(p)
        \/ CreateUsersRecvError(p)
        \/ CreateLock(p)
        \/ CreateScan(p)
        \/ CreateStore(p)
        \/ Finish(p)

SpecBulk == InitBulk /\ [][NextBulk]_vars

\* ---- one CreateUsers stream beside a handler that serves CreateUser calls
NextBatch ==
    \/ \E p \in BulkCallers :
        \/ CreateUsersCall(p)
        \/ CreateUsersRecvBatch(p)
        \/ CreateUsersEOF(p)
        \/ CreateUsersRecvError(p)
        \/ CreateLock(p)
        \/ CreateScan(p)
        \/ CreateStore(p)
    \/ \E p \in Procs \ BulkCallers :
        \/ CreateUserCall(p)
        \/ CreateLock(p)
        \/ CreateScan(p)
        \/ CreateStore(p)
        \/ Finish(p)

SpecBatch == InitBulk /\ [][NextBatch]_vars

\* ---- one CreateUsers stream beside a handler that serves DeleteUser and
\* CreateUser calls
NextRecreate ==
    \/ \E p \in BulkCallers :
        \/ CreateUsersCall(p)
        \/ CreateUsersRecvBatch(p)
        \/ CreateUsersEOF(p)
        \/ CreateUsersRecvError(p)
        \/ CreateLock(p)
        \/ CreateScan(p)
        \/ CreateStore(p)
    \/ \E p \in Procs \ BulkCallers :
        \/ DeleteUserCall(p)
        \/ DeleteLock(p)
        \/ DeleteStore(p)
        \/ CreateUserCall(p)
        \/ CreateLock(p)
        \/ CreateScan(p)
        \/ CreateStore(p)
        \/ Finish(p)

SpecRecreate == InitBulk /\ [][NextRecreate]_vars

\* ---- one StreamUsers call at a time, beside a handler that writes
Streamers == {"h1"}
Writers == {"h2"}

NextStream ==
    \/ \E p \in Streamers :
        \/ StreamUsersCall(p)
        \/ ListRLock(p)
        \/ ListRead(p)
        \/ StreamCancel(p)
        \/ StreamLoop(p)
        \/ StreamSend(p)
        \/ Finish(p)
    \/ \E p \in Writers :
        \/ CreateUserCall(p)
        \/ CreateLock(p)
        \/ CreateScan(p)
        \/ CreateStore(p)
        \/ UpdateUserCall(p)
        \/ GetByIDRLock(p)
        \/ GetByIDRead(p)
        \/ UpdateUserApply(p)
        \/ UpdateLock(p)
        \/ UpdateStore(p)
        \/ DeleteUserCall(p)
        \/ DeleteLock(p)
        \/ DeleteStore(p)
        \/ Finish(p)

SpecStream == Init /\ [][NextStream]_vars

\* ---- one StreamUsers call, whose context is live or done from the start,
\* beside a handler that keeps creating users, under the scheduling the
\* runtime gives: the handler's goroutine runs on, each
\* stream.Send returns, the holder of the mutex gets to its Unlock, and a
\* reader waiting in RLock gets the mutex once the writer has unlocked.
NextGrow ==
    \/ \E p \in Streamers :
        \/ StreamUsersCall(p)
        \/ ListRLock(p)
        \/ ListRead(p)
        \/ StreamLoop(p)
        \/ StreamSend(p)
    \/ \E p \in Writers :
        \/ CreateUserCall(p)
        \/ CreateLock(p)
        \/ CreateScan(p)
        \/ CreateStore(p)
        \/ Finish(p)

\* a step of the StreamUsers handler that waits for nothing but the
\* scheduler and the return of stream.Send
StreamRuns(p) == ListRead(p) \/ StreamLoop(p) \/ StreamSend(p)
\* a step of Create between its Lock and its Unlock
CreateRuns(p) == CreateScan(p) \/ CreateStore(p)

StreamFairness ==
    /\ \A p \in Streamers : SF_vars(ListRLock(p)) /\ WF_vars(StreamRuns(p))
    /\ \A p \in Writers : WF_vars(CreateRuns(p))

SpecGrow == Init /\ [][NextGrow]_vars /\ StreamFairness

\* ---- one Chat session, from the call to the return of the handler
Chatters == {"h1"}

NextChat ==
    \E p \in Chatters :
        \/ ChatCall(p)
        \/ ChatCancel(p)
        \/ RxRecvMessage(p)
        \/ RxRecvFail(p)
        \/ RxSendEnd(p)
        \/ HbTick(p)
        \/ HbSendEnd(p)
        \/ HbDone(p)
        \/ ChatReturn(p)

SpecChat == Init /\ [][NextChat]_vars

\* ---- the same session under the scheduling the runtime gives: a Send that
\* was entered returns, a Recv attempted once the context is done fails, the
\* select of the heartbeat goroutine takes the Done case when it stays
\* ready, and wg.Wait() returns when the counter is zero.
RecvFailsOnceDone(p) == ctx[p] # "live" /\ RxRecvFail(p)

ChatFairness ==
    \A p \in Chatters :
        /\ WF_vars(RecvFailsOnceDone(p))
        /\ WF_vars(RxSendEnd(p))
        /\ WF_vars(HbSendEnd(p))
        /\ WF_vars(HbDone(p))
        /\ WF_vars(ChatReturn(p))

SpecChatLive == Init /\ [][NextChat]_vars /\ ChatFairness

\* ---- one long-lived call (a StreamUsers, a CreateUsers or a Chat) beside
\* one DeleteUser call
NextOpen ==
    \/ \E p \in Streamers :
        \/ StreamUsersCall(p)
        \/ ListRLock(p)
        \/ ListRead(p)
        \/ StreamCancel(p)
        \/ StreamLoop(p)
        \/ StreamSend(p)
        \/ CreateUsersCall(p)
        \/ CreateUsersRecv(p)
        \/ CreateUsersEOF(p)
        \/ CreateUsersRecvError(p)
        \/ CreateLock(p)
        \/ CreateScan(p)
        \/ CreateStore(p)
        \/ ChatCall(p)
        \/ ChatCancel(p)
        \/ RxRecvMessage(p)
        \/ RxRecvFail(p)
        \/ RxSendEnd(p)
        \/ HbTick(p)
        \/ HbSendEnd(p)
        \/ HbDone(p)
        \/ ChatReturn(p)
    \/ \E p \in Writers :
        \/ DeleteUserCall(p)
        \/ DeleteLock(p)
        \/ DeleteStore(p)

SpecOpen == Init /\ [][NextOpen]_vars

\* ---- List on its own: one caller, over every store of ListStores
InitList ==
    /\ users \in ListStores
    /\ nextID = SeedNextID
    /\ owner = [id \in DOMAIN users |-> NoProc]
    /\ mutex = [writer |-> NoProc, readers |-> {}]
    /\ clock = 0
    /\ InitLocals
    /\ calls = 0
    /\ assigned = <<>>
    /\ deleted = {}
    /\ createLog = NoCreates
    /\ received = [p \in Procs |-> <<>>]
    /\ emitted = [p \in Procs |-> <<>>]
    /\ chat = [p \in Procs |-> NoChat]
    /\ entry = [p \in Procs |-> "live"]

NextList ==
    \E p \in ListCallers :
        \/ ListCall(p)
        \/ ListRLock(p)
        \/ ListRead(p)
        \/ Finish(p)

SpecList == InitList /\ [][NextList]_vars

\* ================================================================ claims
\* What the claims speak of, stated apart from the operators of the model.

LiveIDs == DOMAIN users
HeldByLive(email) == \E id \in LiveIDs : users[id].Email = email
SeedEmails == {SeedUsers(0)[id].Email : id \in DOMAIN SeedUsers(0)}
FreshEmails == ReqEmails \ (SeedEmails \cup {""})
InCreate(p) == pc[p] \in {"create_lock", "create_scan", "create_store"}
InFlight(email) == Cardinality({p \in Procs : InCreate(p) /\ user[p].Email = email})
\* k occurs in s as a contiguous run of characters
IsSubstring(k, s) ==
    \E i \in 0..Len(s) : \E j \in i..Len(s) : SubSeq(s, i + 1, j) = k
Min(a, b) == IF a <= b THEN a ELSE b

\* C1: no two live users have the same email.
C1_UniqueEmails ==
    \A a, b \in LiveIDs : a # b => users[a].Email # users[b].Email

\* C2: the IDs Create assigns start at 4 and are strictly increasing, so none
\* is assigned twice, whatever was deleted in between.
C2_StrictlyIncreasingIDs ==
    /\ Len(assigned) >= 1 => assigned[1] = 4
    /\ \A i, j \in 1..Len(assigned) : i < j => assigned[i] < assigned[j]
    /\ \A i \in 1..Len(assigned) : assigned[i] \notin DOMAIN SeedUsers(0)

\* two creations succeeded, the second with the greater ID
C2_Witness ==
    /\ Len(assigned) = 2
    /\ \A i \in 1..2 : assigned[i] \in LiveIDs

\* C3: of the Create calls with one fresh email (creations only, concurrent
\* or not, unary or streamed) exactly one succeeds and every other one fails
\* with EmailExists.
C3_ExactlyOneCreateSucceeds ==
    \A e \in FreshEmails :
        LET l == createLog[e] IN
        /\ l.ok <= 1
        /\ l.ok + l.dup + InFlight(e) = l.n
        /\ (l.n >= 1 /\ InFlight(e) = 0) => (l.ok = 1 /\ l.dup = l.n - 1)

\* two calls with one fresh email overlapped (the one that lost had started
\* first): one created the user, the other got AlreadyExists
C3_Witness ==
    \E p, q \in Procs :
        /\ p # q
        /\ pc[p] = "done" /\ op[p] = "CreateUser" /\ ret[p].code = "OK"
        /\ pc[q] = "done" /\ op[q] = "CreateUser" /\ ret[q].code = "AlreadyExists"
        /\ req[p].email = req[q].email
        /\ req[p].email \in FreshEmails
        /\ user[q].CreatedAt < ret[p].user.created_at

\* a CreateUser call with a live context returns in this step
CreateUserReturns(p) ==
    /\ pc[p] # "done" /\ pc'[p] = "done"
    /\ op'[p] = "CreateUser"
    /\ ctx'[p] = "live"

\* C4 as stated: a CreateUser whose email a live user holds fails with
\* AlreadyExists, whatever its name and role, and changes nothing in the store.
C4_DuplicateEmailAnyName ==
    [][\A p \in Procs :
        (CreateUserReturns(p) /\ HeldByLive(req'[p].email))
            => (ret'[p].code = "AlreadyExists" /\ users' = users /\ nextID' = nextID)]_vars

\* C4 amended: the same for the requests with a non-empty name.
C4_DuplicateEmailNonEmptyName ==
    [][\A p \in Procs :
        (CreateUserReturns(p) /\ HeldByLive(req'[p].email) /\ req'[p].name # <<>>)
            => (ret'[p].code = "AlreadyExists" /\ err'[p] = "ErrEmailExists"
                /\ users' = users /\ nextID' = nextID)]_vars

\* a request with a name, a role and the email of seed user 1 was refused
C4_Witness ==
    \E p \in Procs :
        /\ pc[p] = "done" /\ op[p] = "CreateUser" /\ ctx[p] = "live"
        /\ req[p].name # <<>> /\ req[p].role = "admin"
        /\ HeldByLive(req[p].email)
        /\ ret[p].code = "AlreadyExists"
        /\ nextID = SeedNextID

\* GetByID reads the collection and returns in this step
GetByIDReturns(p) == pc[p] = "get_read" /\ pc'[p] # "get_read"
\* the store's Update runs its body and returns in this step
UpdateReturns(p) == pc[p] = "upd_body" /\ pc'[p] # "upd_body"

\* C5: a deleted ID has no live user ever after, and a GetByID of it that
\* reads after the deletion returns NotFound; an Update that read the record
\* before the deletion does not store it again.
C5_DeletedStaysDeleted ==
    [][/\ \A id \in deleted' : id \notin DOMAIN users'
       /\ \A p \in Procs :
            (GetByIDReturns(p) /\ req[p].id \in deleted)
                => (err'[p] = "ErrUserNotFound" /\ user'[p] = NilUser)]_vars

\* an UpdateUser read the record, the record was deleted, and its Update
\* found the ID gone
C5_Witness ==
    \E p \in Procs :
        /\ pc[p] = "done" /\ op[p] = "UpdateUser"
        /\ user[p].ID = req[p].id /\ user[p].ID \in deleted
        /\ err[p] = "ErrUserNotFound"
        /\ user[p].ID \notin LiveIDs

\* C6: the store's Update of a record whose ID has no live user returns
\* NotFound and leaves the collection and the ID counter as they were.
C6_UpdateMissingIsNotFound ==
    [][\A p \in Procs :
        (UpdateReturns(p) /\ user[p].ID \notin DOMAIN users)
            => (err'[p] = "ErrUserNotFound" /\ users' = users /\ nextID' = nextID)]_vars

\* Update is about to run on a record whose user is gone
C6_Witness ==
    \E p \in Procs : pc[p] = "upd_body" /\ user[p].ID \notin LiveIDs

\* C7: no handler returns Internal, and an UpdateUser with a live context
\* returns the updated record or NotFound.
C7_NoInternal ==
    \A p \in Procs :
        pc[p] = "done" =>
            /\ ret[p].code # "Internal"
            /\ (op[p] = "UpdateUser" /\ ctx[p] = "live")
                    => ret[p].code \in {"OK", "NotFound"}

\* C8: a successful UpdateUser changes, in the record the store holds when
\* it persists, the fields its request sets and the update timestamp, which
\* it advances, and nothing else.
C8_UpdateTouchesRequestedFieldsOnly ==
    [][\A p \in Procs :
        (UpdateReturns(p) /\ user[p].ID \in DOMAIN users) =>
            LET old == users[user[p].ID]
                new == users'[user[p].ID]
                r == req[p]
            IN  /\ new.ID = old.ID
                /\ new.CreatedAt = old.CreatedAt
                /\ new.UpdatedAt > old.UpdatedAt
                /\ new.Name = (IF r.name # <<>> THEN r.name ELSE old.Name)
                /\ new.Email = (IF r.email # "" THEN r.email ELSE old.Email)
                /\ new.Role = (IF r.role # "" THEN r.role ELSE old.Role)]_vars

\* List returns its slice in this step
ListReturns(p) == pc[p] = "list_read" /\ pc'[p] = "done"

\* C9 as stated: List with limit N >= 0 returns at most N records.
C9_AtMostLimitFromZero ==
    [][\A p \in Procs :
        (ListReturns(p) /\ filt[p].limit >= 0)
            => Len(lst'[p]) <= filt[p].limit]_vars

\* C9 amended: List with limit N > 0 returns at most N records.
C9_AtMostLimit ==
    [][\A p \in Procs :
        (ListReturns(p) /\ filt[p].limit > 0)
            => Len(lst'[p]) <= filt[p].limit]_vars

\* two users match, the limit is 1 and one record came back
C9_Witness ==
    \E p \in Procs :
        /\ pc[p] = "done" /\ op[p] = "List"
        /\ filt[p].limit = 1 /\ filt[p].keyword = <<>> /\ filt[p].roles = <<>>
        /\ Cardinality(LiveIDs) = 2
        /\ Len(lst[p]) = 1

\* the user satisfies both predicates of the filter
Matches(u, f) ==
    /\ f.keyword = <<>> \/ IsSubstring(f.keyword, u.Name)
    /\ f.roles = <<>> \/ u.Role \in Range(f.roles)

\* C10: List returns, without error, live users that each match the filter,
\* none twice: all of them when limit <= 0, min(limit, number of matching
\* users) of them when limit > 0, none when no name contains the keyword.
C10_ListReturnsTheMatches ==
    [][\A p \in Procs :
        ListReturns(p) =>
            LET f == filt[p]
                res == lst'[p]
                M == {id \in DOMAIN users : Matches(users[id], f)}
            IN  /\ err'[p] = "nil"
                /\ \A i \in 1..Len(res) : res[i].ID \in M /\ res[i] = users[res[i].ID]
                /\ \A i, j \in 1..Len(res) : i # j => res[i].ID # res[j].ID
                /\ f.limit <= 0 => {res[i].ID : i \in 1..Len(res)} = M
                /\ f.limit > 0 => Len(res) = Min(f.limit, Cardinality(M))
                /\ (f.keyword # <<>>
                    /\ \A id \in DOMAIN users : ~IsSubstring(f.keyword, users[id].Name))
                        => res = <<>>]_vars

\* a keyword found only in the middle of a name selected its user, and a
\* second user was left out
C10_Witness ==
    \E p \in Procs :
        /\ pc[p] = "done" /\ op[p] = "List"
        /\ filt[p].keyword = <<"A">>
        /\ Cardinality(LiveIDs) = 2
        /\ Len(lst[p]) = 1
        /\ lst[p][1].Name = <<"a", "A", "a">>

\* ---------------------------------------------------------------- C11
UnaryOps == {"GetUser", "CreateUser", "UpdateUser", "DeleteUser"}

\* p's step is the start of a unary call
UnaryCalled(p) == pc[p] = "idle" /\ pc'[p] # "idle" /\ op'[p] \in UnaryOps

\* C11: a unary handler called with a context that is already past its
\* deadline (already canceled) returns DeadlineExceeded (Canceled) in that
\* very step, with no record in the reply: the user collection, the ID
\* counter and the mutex are left as they were, so the lock was never taken.
C11_ExpiredContextTouchesNothing ==
    [][\A p \in Procs :
        (UnaryCalled(p) /\ ctx'[p] # "live") =>
            /\ pc'[p] = "done"
            /\ ret'[p].code = (IF ctx'[p] = "deadline" THEN "DeadlineExceeded" ELSE "Canceled")
            /\ ret'[p].user = NilResponse
            /\ users' = users
            /\ nextID' = nextID
            /\ mutex' = mutex]_vars

\* both kinds of expired context were answered, one by each handler
C11_Witness ==
    /\ pc["h1"] = "done" /\ ctx["h1"] = "deadline" /\ ret["h1"].code = "DeadlineExceeded"
    /\ pc["h2"] = "done" /\ ctx["h2"] = "canceled" /\ ret["h2"].code = "Canceled"
    /\ op["h1"] = "UpdateUser" /\ op["h2"] = "CreateUser"
    /\ users = SeedUsers(0) /\ nextID = SeedNextID

\* ---------------------------------------------------------------- C12
\* C12: no handler holds a reference to a record object that the collection
\* stores: every stored object is pointed at by the map alone, also after a
\* successful Create or Update.
C12_NoHandlerHoldsStoredRecord ==
    \A id \in DOMAIN users : owner[id] = NoProc

\* ---------------------------------------------------------------- C13
\* the handlers inside a write (Create, Update, Delete) and inside a read
\* (GetByID, List) of the store
Writing == {p \in Procs : pc[p] \in {"create_scan", "create_store", "upd_body", "del_body"}}
Reading == {p \in Procs : pc[p] \in {"get_read", "list_read"}}

\* C13: the store is accessed by no one, by readers only, or by exactly one
\* writer and no reader; and while a reader is inside, every write is fully
\* applied: each ID the counter has handed out belongs to a record that is in
\* the collection or was deleted from it, and the counter is one step past
\* the last of them.
C13_ReadersOrOneWriter ==
    /\ Cardinality(Writing) <= 1
    /\ Writing # {} => Reading = {}
    /\ Reading # {} =>
            /\ \A i \in 1..Len(assigned) : assigned[i] \in DOMAIN users \cup deleted
            /\ nextID = SeedNextID + Len(assigned)

\* a Create has incremented the counter and not yet stored its record, while
\* a GetByID waits for the read lock
C13_Witness ==
    /\ pc["h1"] = "create_store"
    /\ user["h1"].ID \notin DOMAIN users
    /\ nextID = user["h1"].ID + 1
    /\ pc["h2"] = "get_rlock"

\* two GetByID calls read at the same time
C13_ReadersTogether == Reading = Procs

\* ---------------------------------------------------------------- C14
\* CreateUsers has sent its aggregate result
BulkAnswered(p) == pc[p] = "done" /\ op[p] = "CreateUsers" /\ ret[p].code = "OK"

\* p's stream found the seed store: no item was received before its own
FirstStream(p) == calls = (MaxCalls - MaxItems) + Len(received[p])

\* item i of the stream is the one duplicate: its email is a seed user's,
\* every other item has a name and a fresh email no other item has
OneDuplicate(items, i) ==
    /\ items[i].email \in SeedEmails
    /\ \A j \in DOMAIN items \ {i} :
        /\ items[j].name # <<>>
        /\ items[j].email \in FreshEmails
        /\ \A k \in DOMAIN items \ {i, j} : items[k].email # items[j].email

\* C14: a CreateUsers stream of N items that runs on its own over the seed
\* store and ends gracefully, with one item whose email is a live user's and
\* N-1 valid items with distinct fresh emails, answers createdCount = N-1,
\* N-1 user IDs and exactly one error message, which names the duplicate's
\* email.
C14_OneDuplicateInBatch ==
    \A p \in BulkCallers :
        \A i \in DOMAIN received[p] :
            (BulkAnswered(p) /\ FirstStream(p) /\ OneDuplicate(received[p], i)) =>
                LET b == ret[p].bulk
                    N == Len(received[p])
                IN  /\ b.CreatedCount = N - 1
                    /\ Len(b.UserIds) = N - 1
                    /\ Len(b.Errors) = 1
                    /\ b.Errors[1][2] = received[p][i].email

\* a batch of three with the duplicate in the middle was answered
C14_Witness ==
    /\ BulkAnswered("h1")
    /\ FirstStream("h1")
    /\ Len(received["h1"]) = 3
    /\ OneDuplicate(received["h1"], 2)
    /\ ret["h1"].bulk.CreatedCount = 2

\* ---------------------------------------------------------------- C15
\* p serves a CreateUsers stream and has an item inside repo.Create
BulkItemInCreate(p) == op[p] = "CreateUsers" /\ InCreate(p)

\* the items of p's stream that repo.Create has answered
BulkItemsDone(p) == Len(received[p]) - (IF BulkItemInCreate(p) THEN 1 ELSE 0)

\* C15: in CreateUsers a failed item never ends the batch. Whatever other
\* calls interleave, the step in which repo.Create answers an item, with an
\* error or not, leaves the handler receiving the next item; every item it
\* received has gone through repo.Create and is counted once, as a created
\* ID or as an error message; and the result sent at end-of-input has
\* createdCount = length of userIds and createdCount + number of error
\* messages = number of items received.
C15_FailedItemNeverAborts ==
    [][\A p \in Procs :
        /\ (BulkItemInCreate(p) /\ ~ BulkItemInCreate(p)') => pc'[p] = "bulk_recv"
        /\ op'[p] = "CreateUsers" /\ pc'[p] # "done" =>
            /\ bulk'[p].CreatedCount = Len(bulk'[p].UserIds)
            /\ bulk'[p].CreatedCount + Len(bulk'[p].Errors) = BulkItemsDone(p)'
        /\ BulkAnswered(p)' =>
            /\ ret'[p].bulk.CreatedCount = Len(ret'[p].bulk.UserIds)
            /\ ret'[p].bulk.CreatedCount + Len(ret'[p].bulk.Errors) = Len(received'[p])]_vars

\* a stream whose first item failed and whose second item was created
C15_Witness ==
    \E p \in Procs :
        /\ BulkAnswered(p)
        /\ Len(received[p]) = 2
        /\ Len(ret[p].bulk.Errors) = 1
        /\ ret[p].bulk.Errors[1][2] = received[p][1].email
        /\ ret[p].bulk.UserIds = <<4>>
        /\ 4 \in DOMAIN users /\ users[4].Email = received[p][2].email

\* ---------------------------------------------------------------- C16
\* p's step is CreateUsers returning the error of a failed stream.Recv()
RecvFails(p) ==
    /\ pc[p] = "bulk_recv" /\ pc'[p] = "done"
    /\ ret'[p].code = "RecvError"

\* C16: when stream.Recv() fails with an error that is not end-of-input,
\* CreateUsers returns that error with no aggregate result, and the store is
\* left as it is: the users the earlier items of the stream created are
\* still there, unchanged, and the ID counter is not taken back.
C16_RecvErrorKeepsCreatedUsers ==
    [][\A p \in Procs :
        RecvFails(p) =>
            /\ ret'[p].bulk = NilBulk
            /\ ret'[p].user = NilResponse
            /\ \A i \in 1..Len(bulk[p].UserIds) :
                LET id == bulk[p].UserIds[i] IN
                    id \in DOMAIN users =>
                        id \in DOMAIN users' /\ users'[id] = users[id]
            /\ DOMAIN users' = DOMAIN users
            /\ nextID' = nextID]_vars

\* a stream that had created two users ended on a receive error, and both
\* users are live
C16_Witness ==
    /\ pc["h1"] = "done" /\ op["h1"] = "CreateUsers"
    /\ ret["h1"].code = "RecvError"
    /\ bulk["h1"].UserIds = <<4, 5>>
    /\ {4, 5} \subseteq DOMAIN users
    /\ users[4].Email = received["h1"][1].email

\* ---------------------------------------------------------------- C17
\* p is between the return of List and the return of StreamUsers
Streaming(p) == op[p] = "StreamUsers" /\ pc[p] \in {"stream_loop", "stream_send"}

\* the response m carries the fields of the record u
SameFields(m, u) ==
    /\ m.id = u.ID /\ m.name = u.Name /\ m.email = u.Email /\ m.role = u.Role
    /\ m.created_at = u.CreatedAt /\ m.updated_at = u.UpdatedAt

\* C17: StreamUsers reads the store once, at call start. The slice List
\* returns holds the matching users with their field values of that moment;
\* from then on the handler keeps that slice and never calls List again; and
\* at every moment the records emitted are a prefix of it, in its order and
\* with its field values, whatever is created, updated or deleted meanwhile.
C17_StreamEmitsTheSnapshot ==
    [][\A p \in Streamers :
        /\ (op[p] = "StreamUsers" /\ pc[p] = "list_read" /\ pc'[p] # "list_read") =>
            /\ pc'[p] = "stream_loop"
            /\ \A i \in 1..Len(lst'[p]) :
                /\ lst'[p][i].ID \in DOMAIN users
                /\ lst'[p][i] = users[lst'[p][i].ID]
                /\ Matches(lst'[p][i], filt[p])
        /\ Streaming(p) =>
            /\ lst'[p] = lst[p] \/ pc'[p] = "idle"
            /\ pc'[p] \in {"stream_loop", "stream_send", "done"}
        /\ op'[p] = "StreamUsers" =>
            /\ Len(emitted'[p]) <= Len(lst'[p])
            /\ \A i \in 1..Len(emitted'[p]) : SameFields(emitted'[p][i], lst'[p][i])]_vars

\* user 2 was listed and emitted as it was, and the store no longer has it
\* as emitted: it was deleted or updated by the other handler
C17_Witness ==
    /\ pc["h1"] = "done" /\ op["h1"] = "StreamUsers" /\ ret["h1"].code = "OK"
    /\ Len(emitted["h1"]) = 3
    /\ \E i \in 1..3 :
        /\ emitted["h1"][i].id = 2
        /\ emitted["h1"][i].updated_at = 0
        /\ 2 \notin DOMAIN users \/ users[2].UpdatedAt # 0
    /\ pc["h2"] = "done" /\ ret["h2"].code = "OK"

\* ---------------------------------------------------------------- C18
\* p's step is the context check before an emission, and the context is done
CheckFindsCanceled(p) ==
    /\ pc[p] = "stream_loop" /\ pc'[p] # "stream_loop"
    /\ Len(emitted[p]) < Len(lst[p])
    /\ ctx[p] # "live"

\* C18: when the stream's context is done (canceled, or past its deadline)
\* at the check before an emission, StreamUsers returns the context's error
\* at once; that record and the later ones are never emitted, and the
\* records emitted before stay as they are.
C18_CancelStopsTheStream ==
    [][\A p \in Streamers :
        /\ CheckFindsCanceled(p) =>
            /\ pc'[p] = "done"
            /\ ret'[p].code =
                    (IF ctx[p] = "canceled" THEN "context.Canceled"
                                            ELSE "context.DeadlineExceeded")
            /\ emitted'[p] = emitted[p]
        /\ (pc[p] = "done" /\ pc'[p] = "done") => emitted'[p] = emitted[p]
        /\ (Streaming(p) /\ Streaming(p)') =>
            /\ Len(emitted'[p]) >= Len(emitted[p])
            /\ \A i \in 1..Len(emitted[p]) : emitted'[p][i] = emitted[p][i]]_vars

\* the stream was canceled after one of three records
C18_Witness ==
    /\ pc["h1"] = "done" /\ op["h1"] = "StreamUsers"
    /\ ret["h1"].code = "context.Canceled"
    /\ Len(emitted["h1"]) = 1
    /\ Len(lst["h1"]) = 3

\* ---------------------------------------------------------------- C19
\* the Chat handler of p has returned
ChatReturned(p) == op[p] = "Chat" /\ pc[p] = "done"

\* the goroutines of p's session that have not returned
ChatRunning(p) == {g \in {"rx", "hb"} : chat[p][g] \in {"recv", "select", "sending"}}

\* C19: the Chat handler returns only after both the receive/echo loop and
\* the heartbeat loop have exited: while one of them runs the handler is
\* still waiting, whichever exited first and for whatever reason.
C19_ChatJoinsBothLoops ==
    \A p \in Chatters :
        /\ ChatReturned(p) => ChatRunning(p) = {}
        /\ (op[p] = "Chat" /\ ChatRunning(p) # {}) => pc[p] = "chat_wait"
        /\ op[p] = "Chat" => chat[p].wg = Cardinality(ChatRunning(p))

\* the session returned: the receive loop ended on a failed echo send after
\* an echo had gone through, the heartbeat loop on the cancellation
C19_Witness ==
    /\ ChatReturned("h1")
    /\ ctx["h1"] = "canceled"
    /\ Len(chat["h1"].got) = 2
    /\ chat["h1"].beats >= 1
    /\ Len(chat["h1"].out) = 2

\* ---------------------------------------------------------------- C20
\* p's step is the echo of the last message received going out on the stream
EchoSent(p) ==
    /\ chat[p].rx = "sending" /\ chat'[p].rx = "recv"
    /\ Len(chat'[p].out) = Len(chat[p].out) + 1

\* the message the echo answers, and the echo, at such a step
Echoed(p) == chat[p].got[Len(chat[p].got)]
Echo(p) == chat'[p].out[Len(chat'[p].out)]

\* the body of r is the echo marker followed by the body of m
MarkedBody(r, m) == r.Message = <<"E", "c", "h", "o", ":", " ">> \o m.Message

C21_NoHeartbeatAfterCancel ==
    [][\A p \in Chatters :
        (op[p] = "Chat" /\ ctx[p] # "live" /\ chat[p].hb = "select"
            /\ chat'[p].hb # "select")
            => chat'[p].hb = "exited"]_vars

\* ---------------------------------------------------------------- C22
\* C22: after the call of a Chat session is canceled, and given that a
\* receive attempted after the cancellation fails and that each send
\* returns, both loops exit and the handler returns, under weak fairness of
\* the two loops and of the handler.
C22_CanceledChatReturns ==
    \A p \in Chatters :
        (op[p] = "Chat" /\ ctx[p] # "live")
            ~> (ChatReturned(p) /\ ChatRunning(p) = {})

\* a session canceled while an echo and a heartbeat were both being sent
C22_Witness ==
    /\ op["h1"] = "Chat" /\ pc["h1"] = "chat_wait"
    /\ ctx["h1"] = "canceled"
    /\ chat["h1"].rx = "sending"
    /\ chat["h1"].hb = "sending"

\* C23: a Chat handler whose stream was canceled, or one of whose sends
\* failed, never returns success: it ends the stream with that error.
C23_FailedChatReturnsError ==
    \A p \in Chatters :
        (ChatReturned(p) /\ (ctx[p] # "live" \/ chat[p].sendErr # {}))
            => ret[p].code # "OK"

\* the store's Delete runs its body and returns in this step
DeleteReturns(p) == pc[p] = "del_body" /\ pc'[p] # "del_body"
\* the step leaves the user collection and the ID counter as they were
StoreUntouched == users' = users /\ nextID' = nextID

Suspended(p) == pc[p] \in {"stream_loop", "stream_send", "bulk_recv", "chat_wait"}
\* the handler holds the store's mutex, shared or exclusive
HoldsLock(p) == mutex.writer = p \/ p \in mutex.readers

\* C25: a handler suspended on the transport or the timer holds no store
\* lock, a Chat handler never holds it, and so a writer that waits for the
\* lock while such a call is open can take it.
C25_NoLockWhileSuspended ==
    /\ \A p \in Procs : Suspended(p) => ~HoldsLock(p)
    /\ \A p \in Procs : op[p] = "Chat" => ~HoldsLock(p)
    /\ \A p \in Streamers, w \in Writers :
            (Suspended(p) /\ pc[w] = "del_lock") => ENABLED DeleteLock(w)

\* a DeleteUser removed user 2 while a StreamUsers call that had listed it
\* was sending
C25_Witness ==
    /\ pc["h1"] = "stream_send" /\ op["h1"] = "StreamUsers"
    /\ \E i \in 1..Len(lst["h1"]) : lst["h1"][i].ID = 2
    /\ pc["h2"] = "done" /\ op["h2"] = "DeleteUser" /\ ret["h2"].code = "OK"
    /\ 2 \notin LiveIDs

\* repo.Create is called in this step: by CreateUser, or by CreateUsers for
\* the item it received
CreateInvoked(p) ==
    \/ pc[p] = "idle" /\ op'[p] = "CreateUser" /\ ctx'[p] = "live"
    \/ pc[p] = "bulk_recv" /\ Len(received'[p]) > Len(received[p])

\* C26: Create refuses a record with an empty name or an empty email with
\* InvalidInput without going for the exclusive lock, and a Create that fails
\* with InvalidInput or EmailExists leaves the user collection and the ID
\* counter as they were: no ID is consumed.
C26_FailedCreateConsumesNothing ==
    [][\A p \in Procs :
        /\ (CreateInvoked(p) /\ (user'[p].Name = <<>> \/ user'[p].Email = ""))
                => /\ err'[p] = "ErrInvalidInput"
                   /\ mutex' = mutex /\ mutex.writer # p
                   /\ pc'[p] \notin {"create_lock", "create_scan", "create_store"}
                   /\ StoreUntouched /\ assigned' = assigned
        /\ pc'[p] \in {"create_lock", "create_scan", "create_store"}
                => (user'[p].Name # <<>> /\ user'[p].Email # "")
        /\ (pc[p] = "create_scan" /\ err'[p] = "ErrEmailExists")
                => (StoreUntouched /\ assigned' = assigned)]_vars

\* one CreateUser was refused with InvalidInput, another with EmailExists,
\* and the next ID is still the one the seed store left
C26_Witness ==
    /\ pc["h1"] = "done" /\ op["h1"] = "CreateUser" /\ err["h1"] = "ErrInvalidInput"
    /\ pc["h2"] = "done" /\ op["h2"] = "CreateUser" /\ err["h2"] = "ErrEmailExists"
    /\ nextID = SeedNextID /\ assigned = <<>>

\* r carries the echo marker (a heartbeat does not)
IsEcho(r) ==
    /\ Len(r.Message) >= 6
    /\ SubSeq(r.Message, 1, 6) = <<"E", "c", "h", "o", ":", " ">>
\* the echoes among the messages the session c has sent, in sending order
EchoesOf(c) == SelectSeq(c.out, IsEcho)

\* C27: in a Chat session the k-th echo sent answers the k-th message
\* received; an echo is sent after its message was received and before the
\* next one is, so no message is echoed twice; and once the receiving loop
\* has ended, on a failed receive or a failed send, no echo follows.
C27_EchoesFollowMessages ==
    /\ [](\A p \in Chatters :
            LET e == EchoesOf(chat[p])
                g == chat[p].got
            IN  /\ Len(e) <= Len(g) /\ Len(g) <= Len(e) + 1
                /\ \A k \in 1..Len(e) :
                        e[k].To = g[k].From /\ MarkedBody(e[k], g[k])
                /\ chat[p].rx = "recv" => Len(e) = Len(g)
                /\ chat[p].rx = "sending" => Len(g) = Len(e) + 1)
    /\ [][\A p \in Chatters :
            /\ Len(chat'[p].got) > Len(chat[p].got)
                    => Len(EchoesOf(chat[p])) = Len(chat[p].got)
            /\ chat[p].rx = "exited"
                    => (chat'[p].rx = "exited" /\ chat'[p].got = chat[p].got
                        /\ EchoesOf(chat'[p]) = EchoesOf(chat[p]))]_vars

\* two different messages were received and echoed, a heartbeat went out
\* between the two echoes, and a heartbeat was sent after the receiving loop
\* had ended
C27_Witness ==
    /\ op["h1"] = "Chat" /\ chat["h1"].rx = "exited"
    /\ Len(chat["h1"].got) = 2 /\ Len(chat["h1"].out) = 4
    /\ chat["h1"].got[1] # chat["h1"].got[2]
    /\ IsEcho(chat["h1"].out[1]) /\ ~IsEcho(chat["h1"].out[2])
    /\ IsEcho(chat["h1"].out[3]) /\ ~IsEcho(chat["h1"].out[4])

\* C28: in a Chat session a heartbeat send and an echo send are never in
\* progress at the same time on the stream.
C28_OneSendAtATime ==
    \A p \in Chatters : ~(chat[p].rx = "sending" /\ chat[p].hb = "sending")

\* C29: a Chat handler returns only after the call was canceled or a
\* heartbeat send failed; the end of the client's input, which ends the
\* receiving loop, does not let it return.
C29_ReturnsOnlyOnCancelOrHeartbeatFailure ==
    \A p \in Chatters :
        /\ ChatReturned(p) => (ctx[p] # "live" \/ "hb" \in chat[p].sendErr)
        /\ (op[p] = "Chat" /\ ctx[p] = "live" /\ "hb" \notin chat[p].sendErr)
                => (pc[p] = "chat_wait" /\ chat[p].hb \in {"select", "sending"}
                    /\ chat[p].wg >= 1)

\* the receiving loop has ended on a failed Recv after echoing a message, a
\* heartbeat was sent after that echo, the call is not canceled, and the
\* handler is still in wg.Wait()
C29_Witness ==
    /\ op["h1"] = "Chat" /\ pc["h1"] = "chat_wait" /\ ctx["h1"] = "live"
    /\ chat["h1"].rx = "exited" /\ chat["h1"].sendErr = {}
    /\ chat["h1"].hb = "select" /\ chat["h1"].wg = 1
    /\ Len(chat["h1"].out) = 2
    /\ IsEcho(chat["h1"].out[1]) /\ ~IsEcho(chat["h1"].out[2])

\* C30: a StreamUsers call whose context is done when the handler is entered
\* emits no record and ends with the context's error, whatever the filter and
\* the store hold, also when no user matches.
C30_CanceledAtEntryEmitsNothing ==
    \A p \in Streamers :
        (op[p] = "StreamUsers" /\ entry[p] # "live")
            => /\ emitted[p] = <<>>
               /\ pc[p] = "done" =>
                    ret[p].code = (IF entry[p] = "canceled" THEN "context.Canceled"
                                                            ELSE "context.DeadlineExceeded")

\* stream.Send returns an error to p in this step: the call of Send ends and
\* nothing went on the wire
SendFails(p) ==
    /\ op[p] = "StreamUsers" /\ pc[p] = "stream_send" /\ pc'[p] # "stream_send"
    /\ emitted'[p] = emitted[p]

\* C31: when a Send of StreamUsers fails the handler returns that error at
\* once and sends nothing more; a call that returned with no failed Send and
\* a context that was never done returned success, having emitted each
\* record of the slice List gave it exactly once, in order.
C31_SendErrorEndsTheStream ==
    [][\A p \in Streamers :
        /\ SendFails(p) => (pc'[p] = "done" /\ ret'[p].code = "SendError")
        /\ (op[p] = "StreamUsers" /\ pc[p] = "done")
                => (pc'[p] \in {"done", "idle"} /\ (pc'[p] = "done" => emitted'[p] = emitted[p]))
        /\ (op'[p] = "StreamUsers" /\ pc'[p] = "done" /\ ctx'[p] = "live"
                /\ ret'[p].code # "SendError")
                => /\ ret'[p].code = "OK"
                   /\ Len(emitted'[p]) = Len(lst'[p])
                   /\ \A i \in 1..Len(lst'[p]) : SameFields(emitted'[p][i], lst'[p][i])
                   /\ \A i, j \in 1..Len(emitted'[p]) :
                        i # j => emitted'[p][i].id # emitted'[p][j].id]_vars

\* the second Send of a stream over three records failed: the call ended
\* with the send error, one record emitted, its context still live
C31_Witness ==
    /\ pc["h1"] = "done" /\ op["h1"] = "StreamUsers" /\ ctx["h1"] = "live"
    /\ ret["h1"].code = "SendError"
    /\ Len(lst["h1"]) = 3 /\ Len(emitted["h1"]) = 1

\* the items of `items` that `ok` marks with b, in their order
Picked(items, ok, b) ==
    LET F[i \in 0..Len(items)] ==
            IF i = 0 THEN <<>>
            ELSE IF ok[i] = b THEN Append(F[i - 1], items[i]) ELSE F[i - 1]
    IN  F[Len(items)]

\* ids are the IDs of the users created for the items of `made`, one each
\* and in that order, and errs the messages for the items of `failed`
AnswersInOrder(ids, errs, made, failed) ==
    /\ Len(ids) = Len(made) /\ Len(errs) = Len(failed)
    /\ \A k \in 1..Len(ids) :
            /\ ids[k] \in DOMAIN users
            /\ users[ids[k]].Email = made[k].email
            /\ users[ids[k]].Name = made[k].name
    /\ \A k \in 1..Len(errs) : errs[k][2] = failed[k].email

\* C32: the result of CreateUsers lists the IDs of the users it created in
\* the arrival order of their requests, strictly increasing (so pairwise
\* distinct), and its error messages in the arrival order of the requests
\* that failed, while another handler creates users at the same time; none
\* of its IDs is the ID of a user another call created.
C32_BatchResultInArrivalOrder ==
    \A p \in BulkCallers :
        op[p] = "CreateUsers" =>
            LET ids == bulk[p].UserIds
                errs == bulk[p].Errors
                items == SubSeq(received[p], 1, BulkItemsDone(p))
            IN  /\ bulk[p].CreatedCount = Len(ids)
                /\ \A i, j \in 1..Len(ids) : i < j => ids[i] < ids[j]
                /\ \A i \in 1..Len(ids) : ids[i] < nextID
                /\ \E ok \in [1..Len(items) -> BOOLEAN] :
                        AnswersInOrder(ids, errs, Picked(items, ok, TRUE),
                                       Picked(items, ok, FALSE))
                /\ \A q \in Procs \ {p} :
                        (op[q] = "CreateUser" /\ pc[q] = "done" /\ ret[q].code = "OK")
                            => \A i \in 1..Len(ids) : ids[i] # ret[q].user.id
                /\ BulkAnswered(p) => ret[p].bulk = bulk[p]

\* the stream created users 4 and 6 for its two items, and a CreateUser
\* call created user 5 between them
C32_Witness ==
    /\ BulkAnswered("h1")
    /\ ret["h1"].bulk.UserIds = <<4, 6>>
    /\ Len(received["h1"]) = 2
    /\ pc["h2"] = "done" /\ op["h2"] = "CreateUser" /\ ret["h2"].user.id = 5

\* C33: in every reachable state every live user has a name, an email and a
\* role that are not empty, is stored under its own ID, and has an ID below
\* the ID counter; and a user created from a request without a role is
\* stored with the role "user".
C33_LiveUsersAreWellFormed ==
    /\ [](\A id \in DOMAIN users :
            /\ users[id].ID = id
            /\ users[id].Name # <<>> /\ users[id].Email # "" /\ users[id].Role # ""
            /\ id < nextID)
    /\ [][\A p \in Procs : \A id \in DOMAIN users' \ DOMAIN users :
            pc[p] = "create_store" =>
                users'[id].Role = (IF req[p].role = "" THEN "user" ELSE req[p].role)]_vars

\* user 4 was created from a request without a role and is stored as a
\* "user", and user 2 was given a new name by an UpdateUser
C33_Witness ==
    /\ 4 \in DOMAIN users /\ users[4].Role = "user"
    /\ 2 \in DOMAIN users /\ users[2].Name # JaneSmith /\ users[2].UpdatedAt > 0
    /\ \E p \in Procs : pc[p] = "done" /\ op[p] = "CreateUser" /\ req[p].role = ""
                          /\ ret[p].user.id = 4

\* C34: Delete takes the record out of the collection, and a Create of a
\* record with a name and an email no live user holds succeeds, also when a
\* user deleted earlier had that email; the user it stores gets the ID
\* counter's value, which is neither the ID of a deleted user nor of a live
\* one.
C34_DeletedEmailCanBeCreatedAgain ==
    [][\A p \in Procs :
        /\ (DeleteReturns(p) /\ req[p].id \in DOMAIN users)
                => /\ err'[p] = "nil"
                   /\ DOMAIN users' = DOMAIN users \ {req[p].id}
                   /\ \A id \in DOMAIN users' : users'[id] = users[id]
        /\ (pc[p] = "create_scan" /\ pc'[p] # "create_scan" /\ ~HeldByLive(user[p].Email))
                => /\ pc'[p] = "create_store"
                   /\ user'[p].ID = nextID /\ nextID' = nextID + 1
                   /\ user'[p].ID \notin deleted \cup DOMAIN users
        /\ (pc[p] = "create_store" /\ pc'[p] # "create_store")
                => /\ err'[p] = "nil"
                   /\ user[p].ID \notin deleted \cup DOMAIN users
                   /\ DOMAIN users' = DOMAIN users \cup {user[p].ID}
                   /\ users'[user[p].ID].Email = user[p].Email]_vars

\* the stream created user 4, a DeleteUser removed it, and the stream's next
\* item, with the same email, was created as user 5
C34_Witness ==
    /\ op["h1"] = "CreateUsers" /\ pc["h1"] = "bulk_recv"
    /\ bulk["h1"].UserIds = <<4, 5>>
    /\ received["h1"][1].email = received["h1"][2].email
    /\ 4 \in deleted /\ 4 \notin DOMAIN users
    /\ 5 \in DOMAIN users /\ users[5].Email = received["h1"][1].email

\* C35: every StreamUsers call returns in the end, each Send returning:
\* List gives it no more records than the store had users at that moment,
\* that slice never grows, and it emits no more records than the slice has,
\* however many users are created meanwhile.
C35_StreamUsersReturns ==
    /\ \A p \in Streamers :
            (op[p] = "StreamUsers" /\ pc[p] \notin {"idle", "done"})
                ~> (op[p] = "StreamUsers" /\ pc[p] = "done")
    /\ [](\A p \in Streamers : Len(emitted[p]) <= Len(lst[p]))
    /\ [][\A p \in Streamers :
            /\ (pc[p] = "list_read" /\ pc'[p] # "list_read")
                    => Len(lst'[p]) <= Cardinality(DOMAIN users)
            /\ Streaming(p) => (lst'[p] = lst[p] \/ pc'[p] = "idle")]_vars

\* the stream has emitted the three users of its snapshot and returned,
\* while the store has a fourth, created after the snapshot was taken
C35_Witness ==
    /\ pc["h1"] = "done" /\ op["h1"] = "StreamUsers" /\ ret["h1"].code = "OK"
    /\ Len(lst["h1"]) = 3 /\ Len(emitted["h1"]) = 3
    /\ Cardinality(DOMAIN users) = 4

============================================================================
